---- MODULE Spec2Model ----
\* Trading decision loop of Vendesu/Okx-Wallet (src/trading_bot.py), its Telegram
\* command handlers (src/telegram_bot.py) and the money-management checks
\* it calls (src/money_management.py).
\*
\* Scheduling: everything runs on one asyncio event loop.  The exchange and
\* market-data clients use blocking `requests` calls, so a coroutine gives up
\* control only at asyncio.sleep (main loop) or at a Telegram reply (handlers).
\* A task that is between two sleeps therefore runs without interleaving; the
\* model splits an iteration into steps but lets no other task or handler move
\* while one task is in the middle of an iteration (Idle).
\*
\* Time: one tick stands for 300 s.  A timestamp field holds the number of
\* ticks elapsed since it was set (saturating at the largest duration it is
\* compared with), so `now - field` of the source is the field itself, and a
\* sleep holds the ticks that remain.  Durations are scaled: 300 s -> 1,
\* 3600 s -> 2, 86400 s -> 3.  Money and sizes are small integers.
EXTENDS Integers, Sequences, FiniteSets, TLC

\* ---------------------------------------------------------------- bounds
MaxTasks == 2        \* coroutine slots for TradingBot.start() tasks
MaxOrders == 3       \* place_order calls the venue answers before data dries up

\* ------------------------------------------------------ program constants
COOLDOWN_PERIOD == 1             \* 300 s
MAX_DAILY_TRADES == 2
MAX_DAILY_LOSS == 1
MAX_WEEKLY_LOSS == 2
MAX_DRAWDOWN_PERCENTAGE == 15
DRAWDOWN_COOLDOWN_SECONDS == 3   \* DRAWDOWN_COOLDOWN_HOURS * 3600 = 86400 s
WEEKLY_STOP_SECONDS == 3         \* 86400 s
INITIAL_BALANCE == 10
MAX_POSITION_SIZE == 1
LEDGER_CAP == 1000
risk_check_interval == 1         \* 300 s
DAILY_LIMIT_SLEEP == 2           \* asyncio.sleep(3600)
RISK_PAUSE_SLEEP == 1            \* asyncio.sleep(300)
ERROR_BACKOFF == 1               \* asyncio.sleep(60): over within one tick

None == -1                       \* Python None in a numeric field
Absent == -1                     \* key not in the active_positions dict
NoSignal == "NONE"               \* pair not in the signals dict
Tasks == 1..MaxTasks
PairSeq == <<"BTC/USDT", "ETH/USDT">>
Pairs == {PairSeq[i] : i \in 1..Len(PairSeq)}
Prices == 0..2                   \* 0 stands for None (no price resolvable)
Sizes == {0, 1, 2}                \* position sizes calculate_position_size returns
BalanceReplies == {None, 0, 8, 10}
Decisions == {"HOLD", "BUY", "SELL"}

\* Symbol selection.  A discovery call of the market data client answers a
\* list of symbols, or raises (the module behind the name market_data_client
\* may be the one without the discovery methods).
symbols_update_interval == 2     \* 3600 s, the same span as DAILY_LIMIT_SLEEP
AUTO_SYMBOL_LIMIT == 2
Modes == {"manual", "auto", "trending", "high_volume"}
EXCLUDED_SYMBOLS == {"USDT/USDT", "USDC/USDT"}
StablecoinBases == {"USDT", "USDC", "BUSD", "DAI"}
Symbols == {"BTC/USDT", "ETH/USDT", "SOL/USDT", "DAI/USDT", "USDC/USDT"}
ConfiguredPairs == {<<>>, <<"BTC/USDT">>, <<"SOL/USDT", "USDC/USDT">>}
SymbolLists == {<<>>, <<"SOL/USDT">>, <<"USDC/USDT">>,
                <<"DAI/USDT", "ETH/USDT", "SOL/USDT", "BTC/USDT">>}
DiscoveryAnswers ==
    {[raises |-> TRUE, symbols |-> <<>>]}
        \cup {[raises |-> FALSE, symbols |-> l] : l \in SymbolLists}
NoSymbols == [raises |-> FALSE, symbols |-> <<>>]

Max(a, b) == IF a >= b THEN a ELSE b
Min(a, b) == IF a <= b THEN a ELSE b

VARIABLES
    is_running, daily_trades, daily_pnl, weekly_pnl,
    last_trade_time,      \* None, or ticks since the recorded time (cap COOLDOWN_PERIOD)
    trade_day_passed,     \* now.date() > last_trade_time.date()
    active_positions, trade_history, mm_trade_history,
    initial_balance, current_balance,
    last_risk_check,      \* None, or ticks since the check (cap risk_check_interval)
    market_data_cache,    \* pairs that have cached market data
    pc,                   \* per start() task: where the coroutine is
    remaining,            \* per task: ticks left of the pending asyncio.sleep
    cursor,               \* index of the signal the for loop is at
    reply,                \* last Telegram reply sent by a command handler
    venue_positions,      \* the venue's own position book
    placed, filled,       \* place_order calls the venue received / accepted
    last_order,           \* the most recent place_order call
    closed_ok,            \* pairs stop sold and recorded since the last start request
    stop_pending,         \* stop was requested and no start request followed
    risk_checked,         \* the portfolio risk check ran in the iteration under
                          \* way and no order has been placed since
    call, ret,            \* pure-function harness: arguments and result
    TRADING_MODE,         \* configuration: how the symbol set is chosen
    TRADING_PAIRS,        \* configuration: the manually configured symbols
    active_trading_pairs, \* symbols the loop trades
    last_symbols_update   \* None, or ticks since the last discovery that
                          \* found symbols (cap symbols_update_interval)

botvars == <<is_running, daily_trades, daily_pnl, weekly_pnl, last_trade_time,
             trade_day_passed, active_positions, trade_history, mm_trade_history,
             initial_balance, current_balance, last_risk_check, market_data_cache>>
taskvars == <<pc, remaining, cursor>>
envvars == <<reply, venue_positions, placed, filled, last_order, closed_ok,
            stop_pending, risk_checked>>
purevars == <<call, ret>>
symbolvars == <<TRADING_MODE, TRADING_PAIRS, active_trading_pairs,
               last_symbols_update>>
vars == <<botvars, taskvars, envvars, purevars, symbolvars>>

\* A task is inside _main_loop when it has entered the while statement.
LoopPcs == {"limits", "risk", "market", "generate", "execute", "positions",
            "balance", "sleep", "backoff"}
Suspended == {"none", "created", "sleep", "backoff"}
\* Positions inside the try block of an iteration, between two sleeps.
MidIteration == LoopPcs \ Suspended
Idle == \A t \in Tasks : pc[t] \in Suspended
Alive(t) == pc[t] \in LoopPcs

\* --------------------------------------------- the state order handling touches
Bot == [daily_trades |-> daily_trades, daily_pnl |-> daily_pnl,
        weekly_pnl |-> weekly_pnl, last_trade_time |-> last_trade_time,
        trade_day_passed |-> trade_day_passed,
        active_positions |-> active_positions, trade_history |-> trade_history,
        mm_trade_history |-> mm_trade_history,
        venue_positions |-> venue_positions, placed |-> placed,
        filled |-> filled, last_order |-> last_order,
        closed_ok |-> closed_ok]

SetBot(b) ==
    /\ daily_trades' = b.daily_trades
    /\ daily_pnl' = b.daily_pnl
    /\ weekly_pnl' = b.weekly_pnl
    /\ last_trade_time' = b.last_trade_time
    /\ trade_day_passed' = b.trade_day_passed
    /\ active_positions' = b.active_positions
    /\ trade_history' = b.trade_history
    /\ mm_trade_history' = b.mm_trade_history
    /\ venue_positions' = b.venue_positions
    /\ placed' = b.placed
    /\ filled' = b.filled
    /\ last_order' = b.last_order
    /\ closed_ok' = b.closed_ok

\* self.active_positions.get(pair, 0)
Held(b, pair) ==
    IF b.active_positions[pair] = Absent THEN 0 ELSE b.active_positions[pair]

\* MarketDataClient.get_current_price as seen by the bot: the source stops
\* answering once the venue has received MaxOrders orders.
get_current_price(b, p) == IF b.placed >= MaxOrders THEN 0 ELSE p

\* TradingBot._is_in_cooldown
is_in_cooldown(b) ==
    IF b.last_trade_time = None THEN FALSE
    ELSE b.last_trade_time < COOLDOWN_PERIOD

\* HyperliquidClient.place_order: the venue receives the order and, when it
\* accepts it, books it.
place_order(b, pair, side, size, accepted, origin) ==
    LET o == [in_cooldown |-> (b.last_trade_time # None
                               /\ b.last_trade_time < COOLDOWN_PERIOD),
              repeat |-> (origin = "close" /\ pair \in b.closed_ok)]
        booked == IF ~accepted THEN b.venue_positions
                  ELSE IF side = "BUY"
                       THEN [b.venue_positions EXCEPT ![pair] = @ + size]
                       ELSE [b.venue_positions EXCEPT ![pair] = Max(0, @ - size)]
    IN [b EXCEPT !.placed = @ + 1,
                 !.filled = IF accepted THEN @ + 1 ELSE @,
                 !.last_order = o,
                 !.venue_positions = booked]

\* update_trade_history without the `[-1000:]` truncation
update_trade_history_untruncated(h, trade) == Append(h, trade)

\* MoneyManagement.update_trade_history
update_trade_history(h, trade) ==
    LET a == Append(h, trade)
    IN IF Len(a) > LEDGER_CAP THEN SubSeq(a, Len(a) - LEDGER_CAP + 1, Len(a)) ELSE a

\* TradingBot._record_trade_with_mm; trade_risk is the TradeRisk's position
\* size, or None when the caller passes no TradeRisk.
record_trade_with_mm(b, pair, side, trade_risk, pnl) ==
    LET size == IF trade_risk # None THEN trade_risk ELSE 0
        trade == [pair |-> pair, side |-> side]
        held == Held(b, pair)
    IN [b EXCEPT
          !.trade_history = Append(@, trade),
          !.daily_trades = @ + 1,
          !.last_trade_time = 0,
          !.trade_day_passed = FALSE,
          !.daily_pnl = IF side = "SELL" THEN @ + pnl ELSE @,
          !.weekly_pnl = IF side = "SELL" THEN @ + pnl ELSE @,
          !.active_positions[pair] =
              IF side = "BUY" /\ trade_risk # None THEN held + trade_risk
              ELSE IF side = "SELL" THEN Max(0, held - size)
              ELSE @]

\* TradingBot._execute_buy_order_with_mm.  price: the market-data answer;
\* size: the position size of the TradeRisk from calculate_position_size
\* (0 also stands for no TradeRisk); accepted: the venue's answer.
execute_buy_order_with_mm(b, pair, price, size, accepted) ==
    IF get_current_price(b, price) = 0 THEN b
    ELSE IF size <= 0 THEN b
    ELSE LET position_size == IF size > MAX_POSITION_SIZE THEN MAX_POSITION_SIZE
                              ELSE size
             b1 == place_order(b, pair, "BUY", position_size, accepted, "signal")
             b2 == record_trade_with_mm(b1, pair, "BUY", position_size, 0)
         IN IF accepted
            THEN [b2 EXCEPT !.mm_trade_history =
                     update_trade_history(@, [pair |-> pair, side |-> "BUY"])]
            ELSE b1

\* _execute_sell_order_with_mm without the test for a position to sell
execute_sell_order_unguarded(b, pair, price, accepted, entry, origin) ==
    IF get_current_price(b, price) = 0 THEN b
    ELSE LET position_size == Held(b, pair)
             b1 == place_order(b, pair, "SELL", position_size, accepted, origin)
             pnl == (price - entry) * position_size
             b2 == record_trade_with_mm(b1, pair, "SELL", None, pnl)
         IN IF ~accepted THEN b1
            ELSE IF entry = 0 THEN b1
            ELSE [b2 EXCEPT !.mm_trade_history =
                     update_trade_history(@, [pair |-> pair, side |-> "SELL"]),
                            !.closed_ok = IF origin = "close" THEN @ \cup {pair}
                                          ELSE @]

\* TradingBot._execute_sell_order_with_mm.  entry: the answer to the second
\* price lookup made by _get_entry_price (`or 0`).
execute_sell_order_with_mm(b, pair, price, accepted, entry, origin) ==
    IF b.active_positions[pair] <= 0 THEN b
    ELSE IF get_current_price(b, price) = 0 THEN b
    ELSE LET position_size == b.active_positions[pair]
             b1 == place_order(b, pair, "SELL", position_size, accepted, origin)
             pnl == (price - entry) * position_size
             b2 == record_trade_with_mm(b1, pair, "SELL", None, pnl)
         IN IF ~accepted THEN b1
            ELSE IF entry = 0 THEN b1    \* ZeroDivisionError, caught at line 544
            ELSE [b2 EXCEPT !.mm_trade_history =
                     update_trade_history(@, [pair |-> pair, side |-> "SELL"]),
                            !.closed_ok = IF origin = "close" THEN @ \cup {pair}
                                          ELSE @]

\* Answers the collaborators may give to one sell attempt.  probe is the price
\* lookup of _close_all_positions (only its truthiness is used).
SellAnswers ==
    {r \in [probe : {0, 1}, price : Prices, accepted : BOOLEAN, entry : Prices] :
        /\ r.probe = 0 => r.price = 0
        /\ r.price = 0 => ~r.accepted
        /\ ~r.accepted => r.entry = 0}
NoAnswer == [probe |-> 0, price |-> 0, accepted |-> FALSE, entry |-> 0]

\* TradingBot._close_all_positions, from the i-th pair on.
RECURSIVE close_all_positions(_, _, _)
close_all_positions(b, answers, i) ==
    IF i > Len(PairSeq) THEN b
    ELSE LET pair == PairSeq[i]
             a == answers[pair]
             b1 == IF b.active_positions[pair] > 0
                      /\ get_current_price(b, a.probe) # 0
                   THEN execute_sell_order_with_mm(b, pair, a.price, a.accepted,
                                                   a.entry, "close")
                   ELSE b
         IN close_all_positions(b1, answers, i + 1)

\* MoneyManagement.should_stop_trading
should_stop_trading(balance, initial, d_pnl, w_pnl) ==
    IF initial = 0
    THEN [should_stop |-> FALSE, reason |-> "Error", duration |-> 0]
    ELSE LET first == IF d_pnl <= -MAX_DAILY_LOSS
                      THEN [should_stop |-> TRUE, reason |-> "daily",
                            duration |-> COOLDOWN_PERIOD]
                      ELSE IF w_pnl <= -MAX_WEEKLY_LOSS
                      THEN [should_stop |-> TRUE, reason |-> "weekly",
                            duration |-> WEEKLY_STOP_SECONDS]
                      ELSE [should_stop |-> FALSE, reason |-> "", duration |-> 0]
         IN IF (initial - balance) * 100 >= MAX_DRAWDOWN_PERCENTAGE * initial
            THEN [should_stop |-> TRUE, reason |-> "drawdown",
                  duration |-> DRAWDOWN_COOLDOWN_SECONDS]
            ELSE first

\* _update_balance without the `balance > 0` test
update_balance_unchecked(balance, answer) ==
    IF answer = None THEN balance ELSE answer

\* TradingBot._get_available_balance followed by _update_balance
update_balance(balance, answer) ==
    LET got == IF answer = None THEN balance ELSE answer
    IN IF got > 0 THEN got ELSE balance

\* TradingBot._reset_daily_counters
reset_daily_counters(b) ==
    [b EXCEPT !.daily_trades = 0, !.daily_pnl = 0, !.last_trade_time = None,
              !.trade_day_passed = FALSE]

\* TradingBot._update_positions; answered is false when get_positions fails
update_positions(held, answered, positions) ==
    IF ~answered THEN held
    ELSE [p \in Pairs |-> IF positions[p] > 0 THEN positions[p] ELSE held[p]]

NoRet == [called |-> FALSE, should_stop |-> FALSE, reason |-> "", duration |-> 0]
NoOrder == [in_cooldown |-> FALSE, repeat |-> FALSE]
NoCall == [balance |-> 0, initial |-> 0, daily_pnl |-> 0, weekly_pnl |-> 0]

BuyAnswers ==
    {r \in [price : {0, 1}, size : Sizes, accepted : BOOLEAN] :
        /\ r.price = 0 => r.size = 0
        /\ r.size = 0 => ~r.accepted}
CloseAnswers ==
    {a \in [Pairs -> SellAnswers] :
        \A p \in Pairs : active_positions[p] <= 0 => a[p] = NoAnswer}

\* ------------------------------------------------------------------ Init
\* TradingBot.__init__ and TelegramTradingBot.__init__
BotInit ==
    /\ is_running = FALSE
    /\ daily_trades = 0
    /\ daily_pnl = 0
    /\ weekly_pnl = 0
    /\ last_trade_time = None
    /\ trade_day_passed = FALSE
    /\ active_positions = [p \in Pairs |-> Absent]
    /\ trade_history = <<>>
    /\ mm_trade_history = <<>>
    /\ initial_balance = INITIAL_BALANCE
    /\ current_balance = INITIAL_BALANCE
    /\ last_risk_check = None
    /\ market_data_cache = {}
    /\ pc = [t \in Tasks |-> "none"]
    /\ remaining = [t \in Tasks |-> 0]
    /\ cursor = 0
    /\ reply = ""
    /\ venue_positions = [p \in Pairs |-> 0]
    /\ placed = 0
    /\ filled = 0
    /\ last_order = NoOrder
    /\ closed_ok = {}
    /\ stop_pending = FALSE
    /\ risk_checked = FALSE
    /\ active_trading_pairs = <<>>
    /\ last_symbols_update = None

\* The bot is configured with the manual mode and no pairs, and the market
\* data source lists no symbols: the loop trades the default pairs.
Init ==
    /\ BotInit
    /\ call = NoCall
    /\ ret = NoRet
    /\ TRADING_MODE = "manual"
    /\ TRADING_PAIRS = <<>>

\* ------------------------------------------------------------- the clock
Age(x, cap) == IF x = None THEN None ELSE Min(x + 1, cap)

\* One tick of wall-clock time passes.  An iteration makes a handful of
\* blocking requests and takes far less than a tick, so time passes while the
\* tasks are suspended.
Tick ==
    /\ Idle
    /\ last_trade_time' = Age(last_trade_time, COOLDOWN_PERIOD)
    /\ last_risk_check' = Age(last_risk_check, risk_check_interval)
    /\ last_symbols_update' = Age(last_symbols_update, symbols_update_interval)
    /\ remaining' = [t \in Tasks |-> IF pc[t] \in {"sleep", "backoff"}
                                     THEN Max(0, remaining[t] - 1)
                                     ELSE remaining[t]]
    /\ UNCHANGED <<is_running, daily_trades, daily_pnl, weekly_pnl,
                   trade_day_passed, active_positions, trade_history,
                   mm_trade_history, initial_balance, current_balance,
                   market_data_cache, pc, cursor, reply,
                   venue_positions, placed, filled, last_order, closed_ok,
                   stop_pending, risk_checked, purevars, TRADING_MODE,
                   TRADING_PAIRS, active_trading_pairs>>

\* Midnight passes: the calendar date is now later than last_trade_time's.
NewDay ==
    /\ Idle
    /\ last_trade_time # None
    /\ ~trade_day_passed
    /\ trade_day_passed' = TRUE
    /\ UNCHANGED <<is_running, daily_trades, daily_pnl, weekly_pnl,
                   last_trade_time, active_positions, trade_history,
                   mm_trade_history, initial_balance, current_balance,
                   last_risk_check, market_data_cache, taskvars, envvars,
                   purevars, symbolvars>>

\* await asyncio.sleep(d) in task t
Sleep(t, d) ==
    /\ pc' = [pc EXCEPT ![t] = "sleep"]
    /\ remaining' = [remaining EXCEPT ![t] = d]

Goto(t, label) ==
    /\ pc' = [pc EXCEPT ![t] = label]
    /\ UNCHANGED remaining

\* ------------------------------------------------------ Telegram commands
\* A handler runs when no trading task is mid-iteration, and updates are
\* handled one at a time: the task made by the previous /start_bot has taken
\* its first step before the next command is handled.
CommandReady == Idle /\ \A t \in Tasks : pc[t] # "created"
FreeSlots == {t \in Tasks : pc[t] = "none"}

\* _start_trading_command with the is_running test left out: every request
\* launches a start() task.
StartCommandUnguarded ==
    /\ CommandReady
    /\ FreeSlots # {}
    /\ LET t == CHOOSE x \in FreeSlots : \A y \in FreeSlots : x <= y
       IN pc' = [pc EXCEPT ![t] = "created"]
    /\ reply' = "started"
    /\ stop_pending' = FALSE
    /\ closed_ok' = {}
    /\ UNCHANGED <<botvars, remaining, cursor, venue_positions, placed, filled,
                   last_order, risk_checked, purevars, symbolvars>>

\* TelegramTradingBot._start_trading_command
StartCommand ==
    /\ CommandReady
    /\ IF is_running
       THEN /\ reply' = "already_running"
            /\ UNCHANGED <<botvars, taskvars, venue_positions, placed,
                           filled, last_order, closed_ok, stop_pending,
                           risk_checked, purevars, symbolvars>>
       ELSE /\ FreeSlots # {}
            /\ LET t == CHOOSE x \in FreeSlots : \A y \in FreeSlots : x <= y
               IN pc' = [pc EXCEPT ![t] = "created"]
            /\ reply' = "started"
            /\ stop_pending' = FALSE
            /\ closed_ok' = {}
            /\ UNCHANGED <<botvars, remaining, cursor,
                           venue_positions, placed, filled, last_order,
                           risk_checked, purevars, symbolvars>>

\* TradingBot.stop
stop(answers) ==
    /\ is_running' = FALSE
    /\ SetBot(close_all_positions(Bot, answers, 1))
    /\ stop_pending' = TRUE
    /\ UNCHANGED <<initial_balance, current_balance, last_risk_check,
                   market_data_cache, taskvars, risk_checked, purevars, symbolvars>>

\* TelegramTradingBot._stop_trading_command
StopCommand ==
    /\ CommandReady
    /\ IF ~is_running
       THEN /\ reply' = "not_running"
            /\ UNCHANGED <<botvars, taskvars, venue_positions, placed,
                           filled, last_order, closed_ok, stop_pending,
                           risk_checked, purevars, symbolvars>>
       ELSE /\ \E answers \in CloseAnswers : stop(answers)
            /\ reply' = "stopped"

\* TradingBot.stop awaited again, while is_running is false, by a caller that
\* does not test is_running first (while it is true, StopCommand is that call).
StopCall ==
    /\ CommandReady
    /\ ~is_running
    /\ \E answers \in CloseAnswers : stop(answers)
    /\ UNCHANGED reply

\* ---------------------------------------------------------- the symbol set
BaseAsset(symbol) ==
    CASE symbol = "BTC/USDT" -> "BTC"
      [] symbol = "ETH/USDT" -> "ETH"
      [] symbol = "SOL/USDT" -> "SOL"
      [] symbol = "DAI/USDT" -> "DAI"
      [] symbol = "USDC/USDT" -> "USDC"
      [] OTHER -> "USDT"

NotExcluded(symbol) == symbol \notin EXCLUDED_SYMBOLS
Tradable(symbol) ==
    symbol \notin EXCLUDED_SYMBOLS /\ BaseAsset(symbol) \notin StablecoinBases

\* TradingBot._filter_symbols
filter_symbols(symbols) == SelectSeq(symbols, Tradable)

\* TradingBot._update_trading_pairs: answer is what get_all_available_symbols
\* gives when it is called.
update_trading_pairs(active, last, answer) ==
    IF last # None /\ last < symbols_update_interval
    THEN [active_trading_pairs |-> active, last_symbols_update |-> last]
    ELSE IF answer.raises
    THEN [active_trading_pairs |-> active, last_symbols_update |-> last]
    ELSE IF answer.symbols # <<>>
    THEN LET filtered == filter_symbols(answer.symbols)
         IN [active_trading_pairs |->
                 IF Len(filtered) > AUTO_SYMBOL_LIMIT
                 THEN SubSeq(filtered, 1, AUTO_SYMBOL_LIMIT)
                 ELSE filtered,
             last_symbols_update |-> 0]
    ELSE [active_trading_pairs |-> PairSeq, last_symbols_update |-> last]

\* TradingBot._setup_trading_pairs: answer is what the discovery call of the
\* mode gives.
setup_trading_pairs(mode, configured, active, last, answer) ==
    IF mode = "manual"
    THEN [active_trading_pairs |->
              SelectSeq(IF configured # <<>> THEN configured ELSE PairSeq,
                        NotExcluded),
          last_symbols_update |-> last]
    ELSE IF mode \in {"trending", "high_volume"}
    THEN [active_trading_pairs |->
              IF answer.raises THEN PairSeq
              ELSE SelectSeq(answer.symbols, NotExcluded),
          last_symbols_update |-> last]
    ELSE LET u == update_trading_pairs(active, last, answer)
         IN [active_trading_pairs |->
                 SelectSeq(u.active_trading_pairs, NotExcluded),
             last_symbols_update |-> u.last_symbols_update]

\* ------------------------------------------------------------ TradingBot.start
\* start() with the symbol set and the balance established before the
\* connections are tested.
StartTaskSeedsFirst(t) ==
    /\ pc[t] = "created"
    /\ Idle
    /\ \E connected \in BOOLEAN, answer \in BalanceReplies :
         /\ LET s == setup_trading_pairs(TRADING_MODE, TRADING_PAIRS,
                                         active_trading_pairs,
                                         last_symbols_update, NoSymbols)
            IN /\ active_trading_pairs' = s.active_trading_pairs
               /\ last_symbols_update' = s.last_symbols_update
         /\ current_balance' = update_balance(current_balance, answer)
         /\ IF ~connected
            THEN /\ Goto(t, "none")
                 /\ SetBot(Bot)
                 /\ UNCHANGED is_running
            ELSE /\ is_running' = TRUE
                 /\ SetBot(reset_daily_counters(Bot))
                 /\ Goto(t, "limits")
    /\ UNCHANGED <<initial_balance, last_risk_check, market_data_cache,
                   cursor, reply, stop_pending, risk_checked, purevars,
                   TRADING_MODE, TRADING_PAIRS>>

\* First step of the task made by asyncio.create_task(self.trading_bot.start()):
\* start() runs up to the first iteration of _main_loop.
StartTask(t) ==
    /\ pc[t] = "created"
    /\ Idle
    /\ \E connected \in BOOLEAN, answer \in BalanceReplies :
         IF ~connected
         THEN /\ Goto(t, "none")
              /\ UNCHANGED <<botvars, cursor, envvars, purevars, symbolvars>>
         ELSE /\ LET s == setup_trading_pairs(TRADING_MODE, TRADING_PAIRS,
                                              active_trading_pairs,
                                              last_symbols_update, NoSymbols)
                 IN /\ active_trading_pairs' = s.active_trading_pairs
                    /\ last_symbols_update' = s.last_symbols_update
              /\ current_balance' = update_balance(current_balance, answer)
              /\ is_running' = TRUE
              /\ SetBot(reset_daily_counters(Bot))
              /\ Goto(t, "limits")
              /\ UNCHANGED <<initial_balance, last_risk_check,
                             market_data_cache, cursor, reply,
                             stop_pending, risk_checked, purevars,
                             TRADING_MODE, TRADING_PAIRS>>

\* -------------------------------------------------------- TradingBot._main_loop
\* _main_loop written as `while True`: a resumed task always iterates again.
WakeAlways(t) ==
    /\ pc[t] \in {"sleep", "backoff"}
    /\ remaining[t] = 0
    /\ Idle
    /\ pc' = [pc EXCEPT ![t] = "limits"]
    /\ UNCHANGED <<botvars, remaining, cursor, envvars, purevars, symbolvars>>

\* A task resumed while another task is in the middle of an iteration, as it
\* could be if the steps of an iteration suspended.
WakeInterleaved(t) ==
    /\ pc[t] \in {"sleep", "backoff"}
    /\ remaining[t] = 0
    /\ pc' = [pc EXCEPT ![t] = IF is_running THEN "limits" ELSE "none"]
    /\ UNCHANGED <<botvars, remaining, cursor, envvars, purevars, symbolvars>>

\* The sleep of task t has expired and the event loop resumes it: the
\* `while self.is_running` test.
Wake(t) ==
    /\ pc[t] \in {"sleep", "backoff"}
    /\ remaining[t] = 0
    /\ Idle
    /\ pc' = [pc EXCEPT ![t] = IF is_running THEN "limits" ELSE "none"]
    /\ UNCHANGED <<botvars, remaining, cursor, envvars, purevars, symbolvars>>

\* TradingBot._check_daily_limits
check_daily_limits(b) ==
    IF b.daily_trades >= MAX_DAILY_TRADES THEN TRUE
    ELSE IF b.daily_pnl <= -MAX_DAILY_LOSS THEN TRUE
    ELSE FALSE

\* `if self._check_daily_limits(): await asyncio.sleep(3600); continue`
CheckDailyLimits(t) ==
    /\ pc[t] = "limits"
    /\ IF check_daily_limits(Bot)
       THEN /\ Sleep(t, DAILY_LIMIT_SLEEP)
            /\ UNCHANGED <<botvars, envvars>>
       ELSE /\ IF last_trade_time # None /\ trade_day_passed
               THEN SetBot(reset_daily_counters(Bot))
               ELSE SetBot(Bot)
            /\ Goto(t, "risk")
            /\ UNCHANGED <<is_running, initial_balance, current_balance,
                           last_risk_check, market_data_cache, reply,
                           stop_pending, risk_checked>>
    /\ UNCHANGED <<cursor, purevars, symbolvars>>

\* The sleep the loop takes when _check_risk_management returns True.
risk_pause(st) == RISK_PAUSE_SLEEP

\* `if await self._check_risk_management(): await asyncio.sleep(300); continue`
CheckRiskManagement(t) ==
    /\ pc[t] = "risk"
    /\ IF last_risk_check # None /\ last_risk_check < risk_check_interval
       THEN /\ Goto(t, "market")
            /\ UNCHANGED <<last_risk_check, risk_checked>>
       ELSE /\ last_risk_check' = 0
            /\ LET stop_trading == should_stop_trading(current_balance,
                                       initial_balance, daily_pnl, weekly_pnl)
               IN IF stop_trading.should_stop
                  THEN Sleep(t, risk_pause(stop_trading))
                       /\ UNCHANGED risk_checked
                  ELSE Goto(t, "market") /\ risk_checked' = TRUE
    /\ UNCHANGED <<is_running, daily_trades, daily_pnl, weekly_pnl,
                   last_trade_time, trade_day_passed, active_positions,
                   trade_history, mm_trade_history, initial_balance,
                   current_balance, market_data_cache, cursor,
                   reply, venue_positions, placed, filled, last_order,
                   closed_ok, stop_pending, purevars, symbolvars>>

\* The elements of a list.
Range(list) == {list[i] : i \in 1..Len(list)}

\* TradingBot._update_trading_pairs, then TradingBot._update_market_data:
\* fetched is the set of active pairs for which get_market_data answered.
UpdateMarketData(t) ==
    /\ pc[t] = "market"
    /\ LET u == update_trading_pairs(active_trading_pairs, last_symbols_update,
                                     NoSymbols)
       IN /\ active_trading_pairs' = u.active_trading_pairs
          /\ last_symbols_update' = u.last_symbols_update
    /\ \E fetched \in SUBSET Range(active_trading_pairs') :
         market_data_cache' = market_data_cache \cup fetched
    /\ Goto(t, "generate")
    /\ UNCHANGED <<is_running, daily_trades, daily_pnl, weekly_pnl,
                   last_trade_time, trade_day_passed, active_positions,
                   trade_history, mm_trade_history, initial_balance,
                   current_balance, last_risk_check, cursor,
                   envvars, purevars, TRADING_MODE, TRADING_PAIRS>>

\* TradingBot._generate_signals.  The decisions of the strategy depend on
\* market data only, so the entry of each pair is drawn when the for loop of
\* _execute_trading_signals reaches it; an empty dict is the dict with no
\* entry for any pair.
GenerateSignals(t) ==
    /\ pc[t] = "generate"
    /\ cursor' = 1
    /\ Goto(t, "execute")
    /\ UNCHANGED <<botvars, envvars, purevars, symbolvars>>

\* The signals dict has an entry only for pairs with cached market data.
SignalsFor(pair) ==
    IF pair \in market_data_cache THEN Decisions \cup {NoSignal} ELSE {NoSignal}

\* One turn of the for loop of TradingBot._execute_trading_signals
ExecuteSignal(t) ==
    /\ pc[t] = "execute"
    /\ LET pair == PairSeq[cursor]
       IN \E decision \in SignalsFor(pair) :
          \/ /\ decision \in {NoSignal, "HOLD"} \/ is_in_cooldown(Bot)
             /\ SetBot(Bot)
          \/ /\ decision = "BUY"
             /\ ~is_in_cooldown(Bot)
             /\ \E a \in BuyAnswers :
                  SetBot(execute_buy_order_with_mm(Bot, pair, a.price, a.size,
                                                   a.accepted))
          \/ /\ decision = "SELL"
             /\ ~is_in_cooldown(Bot)
             /\ \E a \in {r \in SellAnswers : r.probe = 1} :
                  SetBot(execute_sell_order_with_mm(Bot, pair, a.price,
                                                    a.accepted, a.entry, "signal"))
    /\ IF cursor = Len(PairSeq)
       THEN cursor' = 0 /\ Goto(t, "positions")
       ELSE cursor' = cursor + 1 /\ UNCHANGED <<pc, remaining>>
    /\ risk_checked' = (risk_checked /\ placed' = placed
                        /\ cursor # Len(PairSeq))
    /\ UNCHANGED <<is_running, initial_balance, current_balance,
                   last_risk_check, market_data_cache, reply, stop_pending,
                   purevars, symbolvars>>

\* TradingBot._update_positions, then _risk_management (whose stop-loss and
\* take-profit tests are placeholders that return False)
UpdatePositions(t) ==
    /\ pc[t] = "positions"
    /\ \E answered \in BOOLEAN :
         active_positions' = update_positions(active_positions, answered,
                                              venue_positions)
    /\ Goto(t, "balance")
    /\ UNCHANGED <<is_running, daily_trades, daily_pnl, weekly_pnl,
                   last_trade_time, trade_day_passed, trade_history,
                   mm_trade_history, initial_balance, current_balance,
                   last_risk_check, market_data_cache, cursor,
                   envvars, purevars, symbolvars>>

\* TradingBot._update_balance, then `await asyncio.sleep(COOLDOWN_PERIOD)`
UpdateBalance(t) ==
    /\ pc[t] = "balance"
    /\ \E answer \in BalanceReplies :
         current_balance' = update_balance(current_balance, answer)
    /\ Sleep(t, COOLDOWN_PERIOD)
    /\ UNCHANGED <<is_running, daily_trades, daily_pnl, weekly_pnl,
                   last_trade_time, trade_day_passed, active_positions,
                   trade_history, mm_trade_history, initial_balance,
                   last_risk_check, market_data_cache, cursor,
                   envvars, purevars, symbolvars>>

\* `_main_loop` with the handler re-raising: the exception ends the task.
RaiseUncaught(t) ==
    /\ pc[t] \in MidIteration
    /\ cursor' = 0
    /\ risk_checked' = FALSE
    /\ Goto(t, "none")
    /\ UNCHANGED <<botvars, reply, venue_positions, placed, filled,
                   last_order, closed_ok, stop_pending, purevars, symbolvars>>

\* A step of the iteration raises an exception that the step does not handle
\* itself: `except Exception` of _main_loop logs it and awaits
\* asyncio.sleep(60).
Raise(t) ==
    /\ pc[t] \in MidIteration
    /\ cursor' = 0
    /\ risk_checked' = FALSE
    /\ pc' = [pc EXCEPT ![t] = "backoff"]
    /\ remaining' = [remaining EXCEPT ![t] = ERROR_BACKOFF]
    /\ UNCHANGED <<botvars, reply, venue_positions, placed, filled,
                   last_order, closed_ok, stop_pending, purevars, symbolvars>>

LoopStep(t) ==
    \/ Wake(t)
    \/ CheckDailyLimits(t)
    \/ CheckRiskManagement(t)
    \/ UpdateMarketData(t)
    \/ GenerateSignals(t)
    \/ ExecuteSignal(t)
    \/ UpdatePositions(t)
    \/ UpdateBalance(t)

\* ------------------------------------------------------------ specifications
Next ==
    \/ Tick
    \/ NewDay
    \/ StartCommand
    \/ StopCommand
    \/ \E t \in Tasks : StartTask(t)
    \/ \E t \in Tasks : Wake(t)
    \/ \E t \in Tasks : CheckDailyLimits(t)
    \/ \E t \in Tasks : CheckRiskManagement(t)
    \/ \E t \in Tasks : UpdateMarketData(t)
    \/ \E t \in Tasks : GenerateSignals(t)
    \/ \E t \in Tasks : ExecuteSignal(t)
    \/ \E t \in Tasks : UpdatePositions(t)
    \/ \E t \in Tasks : UpdateBalance(t)

Spec == Init /\ [][Next]_vars

\* The event loop fires expired timers and runs every ready task, and the
\* clock advances.
FairSpec ==
    /\ Spec
    /\ WF_vars(Tick)
    /\ WF_vars(\E t \in Tasks : StartTask(t) \/ LoopStep(t))

\* The bot driven through its public coroutines as well as through Telegram.
ApiNext == Next \/ StopCall
ApiSpec == Init /\ [][ApiNext]_vars

\* The bot with steps that raise into the `except Exception` of _main_loop.
ErrorNext == Next \/ \E t \in Tasks : Raise(t)
ErrorSpec == Init /\ [][ErrorNext]_vars

\* ------------------------------------------------- should_stop_trading alone
\* Arguments a caller may pass to MoneyManagement.should_stop_trading.
StopArgs == [balance : {0, 8, 9, 10, 12}, initial : {0, 10},
             daily_pnl : -2..1, weekly_pnl : -3..1]

PureInit ==
    /\ BotInit
    /\ call \in StopArgs
    /\ ret = NoRet
    /\ TRADING_MODE = "manual"
    /\ TRADING_PAIRS = <<>>

\* One call of should_stop_trading with the arguments in `call`.
CallShouldStop ==
    /\ ~ret.called
    /\ LET r == should_stop_trading(call.balance, call.initial, call.daily_pnl,
                                    call.weekly_pnl)
       IN ret' = [called |-> TRUE, should_stop |-> r.should_stop,
                  reason |-> r.reason, duration |-> r.duration]
    /\ UNCHANGED <<call, botvars, taskvars, envvars, symbolvars>>

\* The caller prepares the next call.
NextCall ==
    /\ ret.called
    /\ call' \in StopArgs
    /\ ret' = NoRet
    /\ UNCHANGED <<botvars, taskvars, envvars, symbolvars>>

PureNext == CallShouldStop \/ NextCall
PureSpec == PureInit /\ [][PureNext]_vars

\* --------------------------------------------------- _update_positions alone
\* Size the venue's list reports for a symbol; Absent: the symbol is not in it.
ReportedSizes == {Absent, 0, 1, 2}

\* A call of _update_positions: the tracked sizes, whether get_positions gave a
\* non-empty list, and what the list reports.
PositionArgs ==
    {a \in [held : [Pairs -> ReportedSizes], answered : BOOLEAN,
            positions : [Pairs -> ReportedSizes]] :
        a.answered <=> \E p \in Pairs : a.positions[p] # Absent}

PositionsInit ==
    /\ BotInit
    /\ call \in PositionArgs
    /\ ret = [called |-> FALSE]
    /\ TRADING_MODE = "manual"
    /\ TRADING_PAIRS = <<>>

CallUpdatePositions ==
    /\ ~ret.called
    /\ ret' = [called |-> TRUE,
               active_positions |-> update_positions(call.held, call.answered,
                                                     call.positions)]
    /\ UNCHANGED <<call, botvars, taskvars, envvars, symbolvars>>

NextPositionsCall ==
    /\ ret.called
    /\ call' \in PositionArgs
    /\ ret' = [called |-> FALSE]
    /\ UNCHANGED <<botvars, taskvars, envvars, symbolvars>>

PositionsNext == CallUpdatePositions \/ NextPositionsCall
PositionsSpec == PositionsInit /\ [][PositionsNext]_vars

\* ------------------------------------------------- the symbol set alone
\* The statements of start() and _main_loop that read or assign
\* active_trading_pairs and last_symbols_update, for every mode, every
\* configured list and every answer of the discovery calls.  One task runs
\* the loop; the other steps of an iteration assign neither variable.
SymbolsInit ==
    /\ BotInit
    /\ call = NoCall
    /\ ret = NoRet
    /\ TRADING_MODE \in Modes
    /\ TRADING_PAIRS \in ConfiguredPairs

symbolframe == <<daily_trades, daily_pnl, weekly_pnl, last_trade_time,
                 trade_day_passed, active_positions, trade_history,
                 mm_trade_history, initial_balance, current_balance,
                 last_risk_check, cursor, envvars, purevars, TRADING_MODE,
                 TRADING_PAIRS>>

\* start(): _setup_trading_pairs, is_running = True, entry into _main_loop
SetupTradingPairs ==
    /\ pc[1] = "none"
    /\ ~is_running
    /\ \E answer \in DiscoveryAnswers :
         LET s == setup_trading_pairs(TRADING_MODE, TRADING_PAIRS,
                                      active_trading_pairs,
                                      last_symbols_update, answer)
         IN /\ active_trading_pairs' = s.active_trading_pairs
            /\ last_symbols_update' = s.last_symbols_update
    /\ is_running' = TRUE
    /\ Goto(1, "pairs")
    /\ UNCHANGED <<market_data_cache, symbolframe>>

\* `await self._update_trading_pairs()` of an iteration
UpdateTradingPairs ==
    /\ pc[1] = "pairs"
    /\ \E answer \in DiscoveryAnswers :
         LET u == update_trading_pairs(active_trading_pairs,
                                       last_symbols_update, answer)
         IN /\ active_trading_pairs' = u.active_trading_pairs
            /\ last_symbols_update' = u.last_symbols_update
    /\ Goto(1, "market")
    /\ UNCHANGED <<is_running, market_data_cache, symbolframe>>

\* `await self._update_market_data()` of an iteration
RefreshMarketData ==
    /\ pc[1] = "market"
    /\ \E fetched \in SUBSET (Range(active_trading_pairs) \cap Pairs) :
         market_data_cache' = market_data_cache \cup fetched
    /\ Goto(1, "generate")
    /\ UNCHANGED <<is_running, active_trading_pairs, last_symbols_update,
                   symbolframe>>

\* The rest of the iteration, up to `await asyncio.sleep(COOLDOWN_PERIOD)`
FinishIteration ==
    /\ pc[1] = "generate"
    /\ Sleep(1, COOLDOWN_PERIOD)
    /\ UNCHANGED <<is_running, market_data_cache, active_trading_pairs,
                   last_symbols_update, symbolframe>>

\* The sleep has expired: the next iteration
NextIteration ==
    /\ pc[1] = "sleep"
    /\ remaining[1] = 0
    /\ Goto(1, "pairs")
    /\ UNCHANGED <<is_running, market_data_cache, active_trading_pairs,
                   last_symbols_update, symbolframe>>

SymbolsNext ==
    \/ SetupTradingPairs
    \/ UpdateTradingPairs
    \/ RefreshMarketData
    \/ FinishIteration
    \/ NextIteration
    \/ Tick

SymbolsSpec == SymbolsInit /\ [][SymbolsNext]_vars

\* -------------------------------------------------- exact arithmetic
\* A number is a fraction <<numerator, denominator>> in lowest terms with a
\* positive denominator.  Raised, the pair with denominator 0, stands for an
\* exception raised while the number was computed; every operation hands a
\* Raised operand on, as a raise leaves the enclosing expression.
RECURSIVE GCD(_, _)
GCD(a, b) == IF b = 0 THEN a ELSE GCD(b, a % b)
Abs(n) == IF n < 0 THEN -n ELSE n
Raised == <<0, 0>>
IsRaised(x) == x[2] = 0
Norm(n, d) ==
    IF d = 0 THEN Raised
    ELSE LET g == GCD(Abs(n), Abs(d))
             sgn == IF d < 0 THEN -1 ELSE 1
         IN <<sgn * (n \div g), sgn * (d \div g)>>
Q(n) == <<n, 1>>
QAdd(a, b) ==
    IF IsRaised(a) \/ IsRaised(b) THEN Raised
    ELSE Norm(a[1] * b[2] + b[1] * a[2], a[2] * b[2])
QSub(a, b) ==
    IF IsRaised(a) \/ IsRaised(b) THEN Raised
    ELSE Norm(a[1] * b[2] - b[1] * a[2], a[2] * b[2])
QMul(a, b) ==
    IF IsRaised(a) \/ IsRaised(b) THEN Raised
    ELSE Norm(a[1] * b[1], a[2] * b[2])
\* float division: ZeroDivisionError when the divisor is zero
QDiv(a, b) ==
    IF IsRaised(a) \/ IsRaised(b) \/ b[1] = 0 THEN Raised
    ELSE Norm(a[1] * b[2], a[2] * b[1])
QAbs(a) == IF IsRaised(a) THEN Raised ELSE <<Abs(a[1]), a[2]>>
QLt(a, b) == a[1] * b[2] < b[1] * a[2]
QLe(a, b) == a[1] * b[2] <= b[1] * a[2]
\* Python's min(a, b) and max(a, b): the first argument unless the second is
\* smaller (larger)
QMin(a, b) ==
    IF IsRaised(a) \/ IsRaised(b) THEN Raised ELSE IF QLt(b, a) THEN b ELSE a
QMax(a, b) ==
    IF IsRaised(a) \/ IsRaised(b) THEN Raised ELSE IF QLt(a, b) THEN b ELSE a
\* try: value / except Exception: fallback
Try(value, fallback) == IF IsRaised(value) THEN fallback ELSE value

\* ------------------------------------------------ money management settings
RISK_PER_TRADE_PERCENTAGE == Q(2)
MAX_RISK_PER_TRADE_USD == Q(20)
MIN_RISK_PER_TRADE_USD == Q(5)
FIXED_POSITION_SIZE_USD == Q(50)
PERCENTAGE_POSITION_SIZE == Q(5)
KELLY_FRACTION == <<1, 4>>
HIGH_VOLATILITY_THRESHOLD == Q(50)
LOW_VOLATILITY_THRESHOLD == Q(10)
BEAR_MARKET_RISK_REDUCTION == <<1, 2>>
BULL_MARKET_RISK_INCREASE == <<6, 5>>
VOLATILITY_ADJUSTMENT_ENABLED == TRUE

\* A Python value with its type: a str never equals an Enum member.
Str(v) == [type |-> "str", value |-> v]
PositionSizingMethod(v) == [type |-> "PositionSizingMethod", value |-> v]
MethodNames == {"kelly", "fixed", "percentage", "martingale",
                "volatility_adjusted", ""}
MarketConditions == {"bull", "bear", "sideways", "volatile"}

\* --------------------------------------------- MoneyManagement: position size
\* MoneyManagement._calculate_risk_per_trade
calculate_risk_per_trade(balance, confidence) ==
    LET risk_multiplier ==
            IF QLe(<<4, 5>>, confidence) THEN Q(1)
            ELSE IF QLe(<<3, 5>>, confidence) THEN <<4, 5>>
            ELSE IF QLe(<<2, 5>>, confidence) THEN <<3, 5>>
            ELSE <<2, 5>>
        risk_amount ==
            QMul(QDiv(QMul(balance, RISK_PER_TRADE_PERCENTAGE), Q(100)),
                 risk_multiplier)
    IN Try(QMax(MIN_RISK_PER_TRADE_USD, QMin(risk_amount, MAX_RISK_PER_TRADE_USD)),
           MIN_RISK_PER_TRADE_USD)

\* MoneyManagement._fixed_position_sizing
fixed_position_sizing(entry_price) ==
    Try(QDiv(FIXED_POSITION_SIZE_USD, entry_price), Q(0))

\* MoneyManagement._percentage_position_sizing
percentage_position_sizing(balance, entry_price) ==
    Try(QDiv(QMul(balance, QDiv(PERCENTAGE_POSITION_SIZE, Q(100))), entry_price),
        Q(0))

\* The Kelly fraction without its limits.
kelly_fraction_unclamped(stop_loss_percentage, confidence) ==
    LET win_probability == confidence
        loss_probability == QSub(Q(1), win_probability)
        take_profit_percentage == QMul(stop_loss_percentage, <<5, 2>>)
        odds == QDiv(take_profit_percentage, stop_loss_percentage)
    IN QDiv(QSub(QMul(odds, win_probability), loss_probability), odds)

\* The Kelly fraction with the upper limit only.
kelly_fraction_no_floor(stop_loss_percentage, confidence) ==
    LET win_probability == confidence
        loss_probability == QSub(Q(1), win_probability)
        take_profit_percentage == QMul(stop_loss_percentage, <<5, 2>>)
        odds == QDiv(take_profit_percentage, stop_loss_percentage)
        kelly == QDiv(QSub(QMul(odds, win_probability), loss_probability), odds)
    IN QMin(kelly, KELLY_FRACTION)

\* MoneyManagement._kelly_position_sizing, up to the limit on the fraction
kelly_fraction(stop_loss_percentage, confidence) ==
    LET win_probability == confidence
        loss_probability == QSub(Q(1), win_probability)
        take_profit_percentage == QMul(stop_loss_percentage, <<5, 2>>)
        odds == QDiv(take_profit_percentage, stop_loss_percentage)
        kelly == QDiv(QSub(QMul(odds, win_probability), loss_probability), odds)
    IN QMax(Q(0), QMin(kelly, KELLY_FRACTION))

\* MoneyManagement._kelly_position_sizing
kelly_position_sizing(balance, stop_loss_percentage, confidence) ==
    Try(QDiv(QMul(balance, kelly_fraction(stop_loss_percentage, confidence)),
             QDiv(stop_loss_percentage, Q(100))),
        fixed_position_sizing(Q(0)))

\* MoneyManagement._volatility_adjusted_position_sizing; volatility None
\* makes the comparison raise
volatility_adjusted_position_sizing(risk_amount, stop_loss_percentage, volatility) ==
    LET base_position_size ==
            QDiv(risk_amount, QDiv(stop_loss_percentage, Q(100)))
        volatility_multiplier ==
            IF volatility = None THEN Raised
            ELSE IF QLt(HIGH_VOLATILITY_THRESHOLD, Q(volatility)) THEN <<7, 10>>
            ELSE IF QLt(Q(volatility), LOW_VOLATILITY_THRESHOLD) THEN <<6, 5>>
            ELSE Q(1)
    IN Try(QMul(base_position_size, volatility_multiplier),
           fixed_position_sizing(Q(0)))

\* calculate_position_size, `if POSITION_SIZING_METHOD == ...` chain
raw_position_size(method, balance, risk_per_trade_usd, entry_price, stop_loss_percentage, confidence, volatility) ==
    IF method = PositionSizingMethod("kelly")
    THEN kelly_position_sizing(balance, stop_loss_percentage, confidence)
    ELSE IF method = PositionSizingMethod("fixed")
    THEN fixed_position_sizing(entry_price)
    ELSE IF method = PositionSizingMethod("percentage")
    THEN percentage_position_sizing(balance, entry_price)
    ELSE IF method = PositionSizingMethod("volatility_adjusted")
    THEN volatility_adjusted_position_sizing(risk_per_trade_usd,
                                             stop_loss_percentage, volatility)
    ELSE kelly_position_sizing(balance, stop_loss_percentage, confidence)

\* MoneyManagement._adjust_for_volatility
adjust_for_volatility(position_size, volatility) ==
    IF QLt(HIGH_VOLATILITY_THRESHOLD, Q(volatility))
    THEN QMul(position_size, <<4, 5>>)
    ELSE IF QLt(Q(volatility), LOW_VOLATILITY_THRESHOLD)
    THEN QMul(position_size, <<11, 10>>)
    ELSE position_size

\* MoneyManagement._adjust_for_market_condition
adjust_for_market_condition(position_size, market_condition) ==
    IF market_condition = "bear"
    THEN QMul(position_size, BEAR_MARKET_RISK_REDUCTION)
    ELSE IF market_condition = "bull"
    THEN QMul(position_size, BULL_MARKET_RISK_INCREASE)
    ELSE IF market_condition = "volatile"
    THEN QMul(position_size, <<7, 10>>)
    ELSE position_size

\* MoneyManagement._calculate_take_profit
calculate_take_profit(entry_price, stop_loss_percentage) ==
    LET take_profit_percentage == QMul(stop_loss_percentage, <<5, 2>>)
    IN IF QLt(Q(0), entry_price)
       THEN Try(QMul(entry_price,
                     QAdd(Q(1), QDiv(take_profit_percentage, Q(100)))),
                Q(0))
       ELSE Q(0)

\* What a call gives back: a TradeRisk, or None.
TradeRisk(take_profit_price, position_size, risk_amount, risk_percentage) ==
    [returned |-> "TradeRisk", take_profit_price |-> take_profit_price,
     position_size |-> position_size, risk_amount |-> risk_amount,
     risk_percentage |-> risk_percentage]
NoTradeRisk ==
    [returned |-> "None", take_profit_price |-> Raised,
     position_size |-> Raised, risk_amount |-> Raised,
     risk_percentage |-> Raised]

\* MoneyManagement._calculate_simple_position_size
calculate_simple_position_size(balance, entry_price, stop_loss_price) ==
    LET risk_percentage == Q(2)
        risk_amount == QMul(balance, QDiv(risk_percentage, Q(100)))
        stop_loss_distance == QAbs(QSub(entry_price, stop_loss_price))
        position_size == QDiv(risk_amount, stop_loss_distance)
        take_profit_price ==
            QMul(entry_price,
                 QAdd(Q(1), QMul(QDiv(stop_loss_distance, entry_price),
                                 <<5, 2>>)))
    IN IF IsRaised(position_size) \/ IsRaised(take_profit_price)
       THEN NoTradeRisk
       ELSE TradeRisk(take_profit_price, position_size, risk_amount,
                      risk_percentage)

\* MoneyManagement.calculate_position_size
calculate_position_size(method, enabled, balance, entry_price, stop_loss_price, confidence, volatility, market_condition) ==
    LET simple == calculate_simple_position_size(balance, entry_price,
                                                 stop_loss_price)
        risk_per_trade_usd == calculate_risk_per_trade(balance, confidence)
        stop_loss_distance == QAbs(QSub(entry_price, stop_loss_price))
        stop_loss_percentage ==
            QMul(QDiv(stop_loss_distance, entry_price), Q(100))
        sized == raw_position_size(method, balance, risk_per_trade_usd,
                                   entry_price, stop_loss_percentage,
                                   confidence, volatility)
        adjusted ==
            IF VOLATILITY_ADJUSTMENT_ENABLED /\ volatility \notin {None, 0}
            THEN adjust_for_volatility(sized, volatility)
            ELSE sized
        position_size == adjust_for_market_condition(adjusted, market_condition)
        risk_amount == QMul(position_size, stop_loss_distance)
        risk_percentage == QMul(QDiv(risk_amount, balance), Q(100))
        take_profit_price ==
            calculate_take_profit(entry_price, stop_loss_percentage)
    IN IF ~enabled THEN simple
       ELSE IF IsRaised(stop_loss_percentage) \/ IsRaised(risk_percentage)
       THEN simple
       ELSE TradeRisk(take_profit_price, position_size, risk_amount,
                      risk_percentage)

\* ---------------------------------------------- calculate_position_size alone
\* The configuration and the arguments of a call.  Prices and the balance are
\* whole numbers, confidence a fraction, volatility a percentage or None.
SizingArgs ==
    [method : {Str(v) : v \in MethodNames}, enabled : BOOLEAN,
     balance : {0, 1000}, entry_price : {0, 100}, stop_loss_price : {98, 100, 102},
     confidence : {<<0, 1>>, <<2, 5>>, <<1, 2>>, <<4, 5>>, <<1, 1>>},
     volatility : {None, 5, 20, 60}, market_condition : MarketConditions]

\* stop_loss_percentage as calculate_position_size computes it for a call
StopLossPercentage(a) ==
    QMul(QDiv(QAbs(QSub(Q(a.entry_price), Q(a.stop_loss_price))),
              Q(a.entry_price)), Q(100))

SizingInit ==
    /\ BotInit
    /\ call \in SizingArgs
    /\ ret = [called |-> FALSE]
    /\ TRADING_MODE = "manual"
    /\ TRADING_PAIRS = <<>>

\* One call of calculate_position_size.  ret keeps the TradeRisk, and the two
\* intermediate values the call computes on its way: the size the chosen
\* strategy gives and the Kelly fraction.
CallPositionSize ==
    /\ ~ret.called
    /\ LET slp == StopLossPercentage(call)
       IN ret' = [called |-> TRUE,
                  trade_risk |->
                      calculate_position_size(
                          call.method, call.enabled, Q(call.balance),
                          Q(call.entry_price), Q(call.stop_loss_price),
                          call.confidence, call.volatility,
                          call.market_condition),
                  raw_size |->
                      raw_position_size(
                          call.method, Q(call.balance),
                          calculate_risk_per_trade(Q(call.balance),
                                                   call.confidence),
                          Q(call.entry_price), slp, call.confidence,
                          call.volatility),
                  kelly_fraction |-> kelly_fraction(slp, call.confidence),
                  kelly_size |->
                      kelly_position_sizing(Q(call.balance), slp,
                                            call.confidence)]
    /\ UNCHANGED <<call, botvars, taskvars, envvars, symbolvars>>

\* The next call: the configuration stays, the arguments are new.
NextSizingCall ==
    /\ ret.called
    /\ call' \in {a \in SizingArgs :
                    a.method = call.method /\ a.enabled = call.enabled}
    /\ ret' = [called |-> FALSE]
    /\ UNCHANGED <<botvars, taskvars, envvars, symbolvars>>

SizingNext == CallPositionSize \/ NextSizingCall
SizingSpec == SizingInit /\ [][SizingNext]_vars

\* ------------------------------------------- the size of a BUY order alone
STOP_LOSS_PERCENTAGE == Q(2)
NoBuyOrder == [submitted |-> FALSE, size |-> Q(0)]

\* _execute_buy_order_with_mm with the limit on the position size left out
buy_order_unclamped(method, enabled, balance, current_price, confidence, volatility, market_condition) ==
    IF current_price = 0 THEN NoBuyOrder
    ELSE LET stop_loss_price ==
                 QMul(Q(current_price),
                      QSub(Q(1), QDiv(STOP_LOSS_PERCENTAGE, Q(100))))
             trade_risk ==
                 calculate_position_size(method, enabled, Q(balance),
                                         Q(current_price), stop_loss_price,
                                         confidence, volatility,
                                         market_condition)
         IN IF trade_risk.returned = "None" THEN NoBuyOrder
            ELSE IF QLe(trade_risk.position_size, Q(0)) THEN NoBuyOrder
            ELSE [submitted |-> TRUE, size |-> trade_risk.position_size]

\* TradingBot._execute_buy_order_with_mm from the price lookup to the
\* place_order call, with the numbers calculate_position_size gives: whether
\* an order is submitted, and its size.  current_price 0 stands for no price.
buy_order(method, enabled, balance, current_price, confidence, volatility, market_condition) ==
    IF current_price = 0 THEN NoBuyOrder
    ELSE LET stop_loss_price ==
                 QMul(Q(current_price),
                      QSub(Q(1), QDiv(STOP_LOSS_PERCENTAGE, Q(100))))
             trade_risk ==
                 calculate_position_size(method, enabled, Q(balance),
                                         Q(current_price), stop_loss_price,
                                         confidence, volatility,
                                         market_condition)
         IN IF trade_risk.returned = "None" THEN NoBuyOrder
            ELSE IF QLe(trade_risk.position_size, Q(0)) THEN NoBuyOrder
            ELSE [submitted |-> TRUE,
                  size |-> IF QLt(Q(MAX_POSITION_SIZE), trade_risk.position_size)
                           THEN Q(MAX_POSITION_SIZE)
                           ELSE trade_risk.position_size]

\* The configuration, the bot's balance and what the collaborators answer
\* during one BUY signal.
BuyArgs ==
    [method : {Str("kelly"), Str("fixed")}, enabled : BOOLEAN,
     balance : {0, 1, 1000}, current_price : {0, 100},
     confidence : {<<0, 1>>, <<2, 5>>, <<4, 5>>, <<1, 1>>},
     volatility : {None, 5, 20, 60}, market_condition : MarketConditions]

BuyInit ==
    /\ BotInit
    /\ call \in BuyArgs
    /\ ret = [called |-> FALSE]
    /\ TRADING_MODE = "manual"
    /\ TRADING_PAIRS = <<>>

\* One BUY signal handled by _execute_buy_order_with_mm.
SubmitBuyOrder ==
    /\ ~ret.called
    /\ ret' = [called |-> TRUE,
               order |-> buy_order(call.method, call.enabled, call.balance,
                                   call.current_price, call.confidence,
                                   call.volatility, call.market_condition)]
    /\ UNCHANGED <<call, botvars, taskvars, envvars, symbolvars>>

\* The next BUY signal: the configuration stays.
NextBuySignal ==
    /\ ret.called
    /\ call' \in {a \in BuyArgs :
                    a.method = call.method /\ a.enabled = call.enabled}
    /\ ret' = [called |-> FALSE]
    /\ UNCHANGED <<botvars, taskvars, envvars, symbolvars>>

BuyNext == SubmitBuyOrder \/ NextBuySignal
BuySpec == BuyInit /\ [][BuyNext]_vars

\* --------------------------------------------- check_portfolio_risk alone
MAX_PORTFOLIO_RISK_PERCENTAGE == Q(10)

\* A value of the active_positions dict: the risk_amount of a dict that has
\* one, or None for any other value (the bot stores a plain size).
PositionRisks == {None, 15, 30, 50, 100, 150, 151}

\* check_portfolio_risk, `if ... <= 5` chain, with the bounds exclusive
risk_level_exclusive(risk_percentage) ==
    IF QLt(risk_percentage, Q(5)) THEN "LOW"
    ELSE IF QLt(risk_percentage, Q(10)) THEN "MEDIUM"
    ELSE IF QLt(risk_percentage, Q(15)) THEN "HIGH"
    ELSE "EXTREME"

\* check_portfolio_risk, `if portfolio_risk['risk_percentage'] <= 5` chain
risk_level(risk_percentage) ==
    IF QLe(risk_percentage, Q(5)) THEN "LOW"
    ELSE IF QLe(risk_percentage, Q(10)) THEN "MEDIUM"
    ELSE IF QLe(risk_percentage, Q(15)) THEN "HIGH"
    ELSE "EXTREME"

\* check_portfolio_risk, the for loop: total_risk after the first n positions
RECURSIVE total_risk(_, _, _)
total_risk(positions, balance, n) ==
    IF n = 0 THEN Q(0)
    ELSE QAdd(total_risk(positions, balance, n - 1),
              IF positions[n] # None THEN Q(positions[n])
              ELSE QMul(balance, <<1, 50>>))

\* MoneyManagement.check_portfolio_risk
check_portfolio_risk(positions, balance) ==
    LET total == total_risk(positions, balance, Len(positions))
        risk_percentage == QMul(QDiv(total, balance), Q(100))
        level == risk_level(risk_percentage)
    IN IF IsRaised(risk_percentage)
       THEN [error |-> TRUE, total_risk |-> Raised, risk_percentage |-> Raised,
             max_risk_allowed |-> Raised, risk_level |-> "", warnings |-> {}]
       ELSE [error |-> FALSE, total_risk |-> total,
             risk_percentage |-> risk_percentage,
             max_risk_allowed |->
                 QMul(balance, QDiv(MAX_PORTFOLIO_RISK_PERCENTAGE, Q(100))),
             risk_level |-> level,
             warnings |->
                 (IF QLt(MAX_PORTFOLIO_RISK_PERCENTAGE, risk_percentage)
                  THEN {"over_limit"} ELSE {})
                 \cup (IF level = "EXTREME" THEN {"extreme"} ELSE {})]

MaxPositions == 2
PortfolioArgs ==
    [positions : UNION {[1..n -> PositionRisks] : n \in 0..MaxPositions},
     balance : {0, 500, 1000}]

PortfolioInit ==
    /\ BotInit
    /\ call \in PortfolioArgs
    /\ ret = [called |-> FALSE]
    /\ TRADING_MODE = "manual"
    /\ TRADING_PAIRS = <<>>

\* One call of check_portfolio_risk.
CallPortfolioRisk ==
    /\ ~ret.called
    /\ ret' = [called |-> TRUE,
               report |-> check_portfolio_risk(call.positions, Q(call.balance))]
    /\ UNCHANGED <<call, botvars, taskvars, envvars, symbolvars>>

NextPortfolioCall ==
    /\ ret.called
    /\ call' \in PortfolioArgs
    /\ ret' = [called |-> FALSE]
    /\ UNCHANGED <<botvars, taskvars, envvars, symbolvars>>

PortfolioNext == CallPortfolioRisk \/ NextPortfolioCall
PortfolioSpec == PortfolioInit /\ [][PortfolioNext]_vars

\* ----------------------------------------------- calculate_drawdown alone
MaxHistory == 5
Balances == {0, 1000, 1020, 1050, 1080, 1100}
Histories == UNION {[1..n -> Balances] : n \in 0..MaxHistory}

\* calculate_drawdown, the for loop: the locals after the first n balances;
\* the division by a peak of 0 raises and ends the loop.
RECURSIVE drawdown_loop(_, _)
drawdown_loop(balance_history, n) ==
    IF n = 0
    THEN [raised |-> FALSE, peak |-> balance_history[1], max_drawdown |-> 0,
          max_drawdown_percentage |-> Q(0)]
    ELSE LET before == drawdown_loop(balance_history, n - 1)
             balance == balance_history[n]
             peak == IF balance > before.peak THEN balance ELSE before.peak
             drawdown == peak - balance
             drawdown_percentage == QMul(QDiv(Q(drawdown), Q(peak)), Q(100))
         IN IF before.raised \/ IsRaised(drawdown_percentage)
            THEN [before EXCEPT !.raised = TRUE]
            ELSE IF drawdown > before.max_drawdown
            THEN [raised |-> FALSE, peak |-> peak, max_drawdown |-> drawdown,
                  max_drawdown_percentage |-> drawdown_percentage]
            ELSE [before EXCEPT !.peak = peak]

\* MoneyManagement.calculate_drawdown; the report of a short history and of
\* the except branch has two keys only.
calculate_drawdown(balance_history) ==
    IF Len(balance_history) < 2
    THEN [max_drawdown |-> 0, max_drawdown_percentage |-> Q(0)]
    ELSE LET after == drawdown_loop(balance_history, Len(balance_history))
         IN IF after.raised
            THEN [max_drawdown |-> 0, max_drawdown_percentage |-> Q(0)]
            ELSE [max_drawdown |-> after.max_drawdown,
                  max_drawdown_percentage |-> after.max_drawdown_percentage,
                  current_drawdown |->
                      after.peak - balance_history[Len(balance_history)],
                  peak_balance |-> after.peak]

DrawdownInit ==
    /\ BotInit
    /\ call \in [balance_history : Histories]
    /\ ret = [called |-> FALSE]
    /\ TRADING_MODE = "manual"
    /\ TRADING_PAIRS = <<>>

\* One call of calculate_drawdown.
CallDrawdown ==
    /\ ~ret.called
    /\ ret' = [called |-> TRUE,
               report |-> calculate_drawdown(call.balance_history)]
    /\ UNCHANGED <<call, botvars, taskvars, envvars, symbolvars>>

\* The next call: the history one balance longer, as get_portfolio_metrics
\* builds it trade by trade, or a new history.
NextDrawdownCall ==
    /\ ret.called
    /\ \E balance \in Balances :
          call' = [balance_history |->
                      IF Len(call.balance_history) < MaxHistory
                      THEN Append(call.balance_history, balance)
                      ELSE <<balance>>]
    /\ ret' = [called |-> FALSE]
    /\ UNCHANGED <<botvars, taskvars, envvars, symbolvars>>

DrawdownNext == CallDrawdown \/ NextDrawdownCall
DrawdownSpec == DrawdownInit /\ [][DrawdownNext]_vars

\* --------------------------------------------- update_trade_history alone
MaxInserts == 1002

\* The ledger of a new MoneyManagement; ret.inserted counts the calls of
\* update_trade_history and stands for datetime.now() of the next one.
LedgerInit ==
    /\ BotInit
    /\ call = NoCall
    /\ ret = [inserted |-> 0]
    /\ TRADING_MODE = "manual"
    /\ TRADING_PAIRS = <<>>

\* One call of update_trade_history with a trade of the given pair and side.
UpdateTradeHistory(pair, side) ==
    /\ ret.inserted < MaxInserts
    /\ ret' = [inserted |-> ret.inserted + 1]
    /\ mm_trade_history' =
           update_trade_history(mm_trade_history,
                                [timestamp |-> ret.inserted + 1,
                                 pair |-> pair, side |-> side])
    /\ UNCHANGED <<is_running, daily_trades, daily_pnl, weekly_pnl,
                   last_trade_time, trade_day_passed, active_positions,
                   trade_history, initial_balance, current_balance,
                   last_risk_check, market_data_cache,
                   call, taskvars, envvars, symbolvars>>

\* The bot alternates: every odd record is a BUY, every even one a SELL.
LedgerNext ==
    \/ (ret.inserted % 2 = 0 /\ UpdateTradeHistory(PairSeq[1], "BUY"))
    \/ (ret.inserted % 2 = 1 /\ UpdateTradeHistory(PairSeq[1], "SELL"))
LedgerSpec == LedgerInit /\ [][LedgerNext]_vars

\* ------------------------------------ the freshness filter of the signals
\* The part of an iteration that reads market data, with last_update_time:
\* ret.last_update_time[pair] is None or the age in ticks of the last
\* successful get_market_data of the pair, ret.signals the dict returned by
\* _generate_signals, ret.ordered the pairs _execute_trading_signals handed
\* to an order method in this iteration.
FRESHNESS_LIMIT == 2             \* 3600 s, the same span as DAILY_LIMIT_SLEEP
MaxAge == FRESHNESS_LIMIT + 1

\* _generate_signals with the `time_diff < 3600` test left out
fresh_data_unfiltered(cache, last_update_time) ==
    {pair \in cache : last_update_time[pair] # None}

\* _generate_signals, the loop that fills fresh_data
fresh_data(cache, last_update_time) ==
    {pair \in cache : /\ last_update_time[pair] # None
                      /\ last_update_time[pair] < FRESHNESS_LIMIT}

NoSignals == [pair \in Pairs |-> NoSignal]

FreshInit ==
    /\ BotInit
    /\ call = NoCall
    /\ ret = [last_update_time |-> [pair \in Pairs |-> None],
              signals |-> NoSignals, ordered |-> {}]
    /\ TRADING_MODE = "manual"
    /\ TRADING_PAIRS = PairSeq

freshframe == <<daily_trades, daily_pnl, weekly_pnl, last_trade_time,
                trade_day_passed, active_positions, trade_history,
                mm_trade_history, initial_balance, current_balance,
                last_risk_check, cursor, envvars, call, TRADING_MODE,
                TRADING_PAIRS, last_symbols_update>>

\* start(): _setup_trading_pairs, is_running = True, entry into _main_loop
StartFresh ==
    /\ pc[1] = "none"
    /\ ~is_running
    /\ active_trading_pairs' =
           setup_trading_pairs(TRADING_MODE, TRADING_PAIRS,
                               active_trading_pairs, last_symbols_update,
                               NoSymbols).active_trading_pairs
    /\ is_running' = TRUE
    /\ Goto(1, "market")
    /\ UNCHANGED <<market_data_cache, ret, freshframe>>

\* TradingBot._update_market_data: fetched is the set of active pairs for
\* which get_market_data answered; the others keep their entry and its time.
UpdateMarketDataTimes ==
    /\ pc[1] = "market"
    /\ \E fetched \in SUBSET Range(active_trading_pairs) :
         /\ market_data_cache' = market_data_cache \cup fetched
         /\ ret' = [last_update_time |->
                        [pair \in Pairs |->
                            IF pair \in fetched THEN 0
                            ELSE ret.last_update_time[pair]],
                    signals |-> NoSignals, ordered |-> {}]
    /\ Goto(1, "generate")
    /\ UNCHANGED <<is_running, active_trading_pairs, freshframe>>

\* TradingBot._generate_signals: generate_trading_signals gives an entry to
\* pairs of fresh_data only, and to none with fewer than 50 prices.
GenerateFreshSignals ==
    /\ pc[1] = "generate"
    /\ LET fresh == fresh_data(market_data_cache, ret.last_update_time)
       IN \E signals \in [Pairs -> Decisions \cup {NoSignal}] :
            /\ \A pair \in Pairs \ fresh : signals[pair] = NoSignal
            /\ ret' = [ret EXCEPT !.signals = signals]
    /\ Goto(1, "execute")
    /\ UNCHANGED <<is_running, market_data_cache, active_trading_pairs,
                   freshframe>>

\* TradingBot._execute_trading_signals: an entry that is not HOLD reaches
\* _execute_buy_order_with_mm or _execute_sell_order_with_mm unless the bot
\* is in cooldown; then `await asyncio.sleep(COOLDOWN_PERIOD)`.
ExecuteFreshSignals ==
    /\ pc[1] = "execute"
    /\ \E skipped \in SUBSET Pairs :
         ret' = [ret EXCEPT !.ordered =
                    {pair \in Pairs : ret.signals[pair] \in {"BUY", "SELL"}}
                        \ skipped]
    /\ Sleep(1, COOLDOWN_PERIOD)
    /\ UNCHANGED <<is_running, market_data_cache, active_trading_pairs,
                   freshframe>>

\* The sleep has expired: the next iteration
NextFreshIteration ==
    /\ pc[1] = "sleep"
    /\ remaining[1] = 0
    /\ Goto(1, "market")
    /\ UNCHANGED <<is_running, market_data_cache, active_trading_pairs, ret,
                   freshframe>>

\* One tick of wall-clock time passes while the loop sleeps.
FreshTick ==
    /\ pc[1] = "sleep"
    /\ remaining' = [remaining EXCEPT ![1] = Max(0, @ - 1)]
    /\ ret' = [ret EXCEPT !.last_update_time =
                  [pair \in Pairs |-> Age(ret.last_update_time[pair], MaxAge)]]
    /\ UNCHANGED <<is_running, market_data_cache, active_trading_pairs, pc,
                   freshframe>>

FreshNext ==
    \/ StartFresh
    \/ UpdateMarketDataTimes
    \/ GenerateFreshSignals
    \/ ExecuteFreshSignals
    \/ NextFreshIteration
    \/ FreshTick

FreshSpec == FreshInit /\ [][FreshNext]_vars

\* ------------------------------------------ signals for one pair at a time
\* _execute_trading_signals applied to one signal at a time, with no task
\* and no loop around it: call is the signal handled last.
NoSignalCall == [pair |-> "", side |-> ""]

SignalInit ==
    /\ BotInit
    /\ call = NoSignalCall
    /\ ret = NoRet
    /\ TRADING_MODE = "manual"
    /\ TRADING_PAIRS = <<>>

signalframe == <<is_running, initial_balance, current_balance,
                 last_risk_check, market_data_cache, taskvars, reply,
                 stop_pending, risk_checked, ret, symbolvars>>

\* A BUY entry of the signals dict
BuySignal(pair) ==
    /\ call' = [pair |-> pair, side |-> "BUY"]
    /\ IF is_in_cooldown(Bot) THEN SetBot(Bot)
       ELSE \E a \in BuyAnswers :
              SetBot(execute_buy_order_with_mm(Bot, pair, a.price, a.size,
                                               a.accepted))
    /\ UNCHANGED signalframe

\* A SELL entry of the signals dict
SellSignal(pair) ==
    /\ call' = [pair |-> pair, side |-> "SELL"]
    /\ IF is_in_cooldown(Bot) THEN SetBot(Bot)
       ELSE \E a \in {r \in SellAnswers : r.probe = 1} :
              SetBot(execute_sell_order_with_mm(Bot, pair, a.price,
                                                a.accepted, a.entry, "signal"))
    /\ UNCHANGED signalframe

\* Time passes between two signals: the cooldown runs out.
SignalTick ==
    /\ call' = NoSignalCall
    /\ last_trade_time' = Age(last_trade_time, COOLDOWN_PERIOD)
    /\ UNCHANGED <<daily_trades, daily_pnl, weekly_pnl, trade_day_passed,
                   active_positions, trade_history, mm_trade_history,
                   venue_positions, placed, filled, last_order, closed_ok,
                   signalframe>>

SignalNext ==
    \/ \E pair \in Pairs : BuySignal(pair)
    \/ \E pair \in Pairs : SellSignal(pair)
    \/ SignalTick

SignalSpec == SignalInit /\ [][SignalNext]_vars

\* ------------------------------------------------- _update_balance alone
\* What get_user_state gives: an exception, nothing, a state without a USDC
\* asset, or a USDC asset with a free amount.
FreeAmounts == {-5, 0} \cup 1..12
UserStates ==
    {[kind |-> k, free |-> 0] : k \in {"raises", "nothing", "no_usdc"}}
        \cup {[kind |-> "usdc", free |-> f] : f \in FreeAmounts}

\* TradingBot._get_available_balance
get_available_balance(balance, user_state) ==
    IF user_state.kind = "usdc" THEN user_state.free ELSE balance

BalanceInit ==
    /\ BotInit
    /\ call = [user_state |-> [kind |-> "nothing", free |-> 0]]
    /\ ret = [before |-> INITIAL_BALANCE]
    /\ TRADING_MODE = "manual"
    /\ TRADING_PAIRS = <<>>

\* One call of _update_balance; ret.before is the balance before it.
CallUpdateBalance ==
    /\ \E user_state \in UserStates :
         /\ call' = [user_state |-> user_state]
         /\ current_balance' =
                update_balance(current_balance,
                               get_available_balance(current_balance,
                                                     user_state))
    /\ ret' = [before |-> current_balance]
    /\ UNCHANGED <<is_running, daily_trades, daily_pnl, weekly_pnl,
                   last_trade_time, trade_day_passed, active_positions,
                   trade_history, mm_trade_history, initial_balance,
                   last_risk_check, market_data_cache, taskvars, envvars,
                   symbolvars>>

BalanceNext == CallUpdateBalance
BalanceSpec == BalanceInit /\ [][BalanceNext]_vars

\* ===================================================================== claims

\* C1: once a trade has been recorded, no order reaches the venue until
\* COOLDOWN_PERIOD has elapsed since last_trade_time: the most recent order
\* the venue received was not placed inside the cooldown window.
CooldownGate == last_order.in_cooldown = FALSE

\* C2: at most one instance of _main_loop is alive at any time.
SingleMainLoop == Cardinality({t \in Tasks : Alive(t)}) <= 1

\* C3: a second stop with no start in between submits no close order for a
\* position the first stop already closed successfully.
IdempotentStop == last_order.repeat = FALSE

StopIsEffective ==
    /\ [][(stop_pending /\ stop_pending')
            => /\ placed' = placed
               /\ \A t \in Tasks : pc'[t] = pc[t] \/ pc'[t] = "none"]_vars
    /\ stop_pending ~> (~stop_pending
                        \/ (~is_running /\ \A t \in Tasks : pc[t] = "none"))
StopIsEffectiveWitness ==
    /\ stop_pending
    /\ ~is_running
    /\ \A t \in Tasks : pc[t] = "none"
    /\ filled > 0

\* C6: once stop has returned, no loop is still suspended in a sleep that has
\* not expired.
StopInterruptsSleep ==
    stop_pending => \A t \in Tasks : ~(pc[t] = "sleep" /\ remaining[t] > 0)

\* C7: when the loop re-checks the daily limits on a calendar day later than
\* the last trade, the daily counters are reset and the iteration goes on.
DailyPauseEnds ==
    [][\A t \in Tasks :
         (pc[t] = "limits" /\ pc'[t] # "limits"
          /\ last_trade_time # None /\ trade_day_passed)
           => (pc'[t] = "risk" /\ daily_trades' = 0 /\ daily_pnl' = 0)]_vars

\* C8: when should_stop_trading fires in the loop, the loop sleeps for the
\* duration that call returned.
PauseForReturnedDuration ==
    [][\A t \in Tasks :
         (pc[t] = "risk" /\ pc'[t] = "sleep")
           => remaining'[t] = should_stop_trading(current_balance,
                                  initial_balance, daily_pnl, weekly_pnl).duration]_vars

\* C9: the first limit met wins: a daily loss at the limit gives a daily-loss
\* stop with the cooldown period as duration whatever the other arguments are,
\* and a weekly stop takes precedence over a drawdown stop.
FirstLimitWins ==
    (ret.called /\ call.initial > 0) =>
        /\ call.daily_pnl <= -MAX_DAILY_LOSS
             => (ret.should_stop /\ ret.reason = "daily"
                 /\ ret.duration = COOLDOWN_PERIOD)
        /\ (call.daily_pnl > -MAX_DAILY_LOSS /\ call.weekly_pnl <= -MAX_WEEKLY_LOSS)
             => (ret.should_stop /\ ret.reason = "weekly"
                 /\ ret.duration = WEEKLY_STOP_SECONDS)

\* C10: the number of recorded trades, in the bot's history and in the
\* money-management ledger, equals the number of orders the venue accepted.
OneRecordPerFill ==
    /\ Len(trade_history) = filled
    /\ Len(mm_trade_history) = filled

\* C11: after _update_positions ran with a venue position list, the tracked
\* size of every symbol the list reports (0 for a symbol not tracked) equals
\* the reported size, a reported size of 0 included.
VenueIsAuthoritative ==
    (ret.called /\ call.answered) =>
        \A p \in Pairs :
            call.positions[p] # Absent
                => Held(ret, p) = call.positions[p]

\* C12: every order that reaches the venue is preceded, within the same
\* iteration and after the previous order, by a portfolio risk check.
RiskGateBeforeOrder == [][placed' # placed => risk_checked]_vars

\* C13: in manual mode, while the bot runs, the active symbol set is the one
\* established at startup: the configured pairs (the default pairs when none
\* are configured) without the excluded symbols.
ManualPairsFixed ==
    (TRADING_MODE = "manual" /\ is_running)
        => active_trading_pairs =
               SelectSeq(IF TRADING_PAIRS # <<>> THEN TRADING_PAIRS ELSE PairSeq,
                         NotExcluded)

\* C14: an iteration ends only in a sleep, never in the end of the task; the
\* step that follows the backoff sleep begins a new iteration unless the bot
\* was stopped meanwhile; and a task leaves the loop only when is_running is
\* false, which only stop() makes it.
LoopIsErrorBoundary ==
    [][/\ \A t \in Tasks :
            /\ (pc[t] \in MidIteration /\ pc'[t] \notin MidIteration)
                 => pc'[t] \in {"sleep", "backoff"}
            /\ (pc[t] = "backoff" /\ pc'[t] # "backoff")
                 => pc'[t] = IF is_running THEN "limits" ELSE "none"
            /\ (Alive(t) /\ pc'[t] = "none") => ~is_running
       /\ (is_running /\ ~is_running') => stop_pending']_vars
LoopIsErrorBoundaryWitness ==
    /\ is_running
    /\ ~stop_pending
    /\ \E t \in Tasks : pc[t] = "backoff" /\ remaining[t] = 0

\* C15: a start() whose connectivity check fails ends at once: is_running is
\* false afterwards, no task enters the loop, the symbol set, the balance and
\* every other field of the bot are as before, and no order is submitted.
FailedStartLeavesStopped ==
    [][\A t \in Tasks :
          (pc[t] = "created" /\ pc'[t] = "none")
              => /\ ~is_running'
                 /\ \A u \in Tasks : u # t => pc'[u] = pc[u]
                 /\ UNCHANGED <<active_trading_pairs, last_symbols_update,
                                current_balance, initial_balance, placed,
                                filled, botvars, venue_positions>>]_vars
FailedStartLeavesStoppedWitness ==
    /\ reply = "started"
    /\ ~is_running
    /\ ~stop_pending
    /\ \A t \in Tasks : pc[t] = "none"
    /\ active_trading_pairs = <<>>
    /\ placed = 0

\* C16: a task generates signals only straight after its market-data refresh
\* and executes them only straight after generating them; it begins an
\* iteration only when started or resumed from a sleep, that is after its
\* previous iteration completed or raised; and while a task is inside an
\* iteration no other task is inside one or takes a step.
IterationsInOrder ==
    [][\A t \in Tasks :
          /\ (pc'[t] = "generate" /\ pc[t] # "generate") => pc[t] = "market"
          /\ (pc'[t] = "execute" /\ pc[t] # "execute") => pc[t] = "generate"
          /\ (pc'[t] = "limits" /\ pc[t] # "limits")
               => pc[t] \in {"created", "sleep", "backoff"}
          /\ pc[t] \in MidIteration
               => \A u \in Tasks \ {t} :
                      pc[u] \notin MidIteration /\ pc'[u] = pc[u]]_vars
IterationsInOrderWitness ==
    \E t, u \in Tasks :
        /\ pc[t] = "execute"
        /\ cursor = Len(PairSeq)
        /\ pc[u] \in {"sleep", "backoff"}
        /\ remaining[u] = 0
        /\ is_running

\* C17: on the main path of calculate_position_size (money management
\* enabled, entry price positive, stop different from entry) the size before
\* the volatility and market multipliers is the one of the strategy that
\* POSITION_SIZING_METHOD names: fixed, percentage, volatility_adjusted, and
\* Kelly for 'kelly' and for any other value.
ConfiguredMethodApplied ==
    (/\ ret.called
     /\ call.enabled
     /\ call.entry_price > 0
     /\ call.stop_loss_price # call.entry_price)
        => ret.raw_size =
             CASE call.method.value = "fixed" ->
                      fixed_position_sizing(Q(call.entry_price))
               [] call.method.value = "percentage" ->
                      percentage_position_sizing(Q(call.balance),
                                                 Q(call.entry_price))
               [] call.method.value = "volatility_adjusted" ->
                      volatility_adjusted_position_sizing(
                          calculate_risk_per_trade(Q(call.balance),
                                                   call.confidence),
                          StopLossPercentage(call), call.volatility)
               [] OTHER ->
                      kelly_position_sizing(Q(call.balance),
                                            StopLossPercentage(call),
                                            call.confidence)

\* C18: for valid inputs under the Kelly method the risk_amount of the
\* returned TradeRisk lies within [MIN_RISK_PER_TRADE_USD,
\* MAX_RISK_PER_TRADE_USD].
RiskAmountClamped ==
    (/\ ret.called
     /\ call.enabled
     /\ call.method.value = "kelly"
     /\ call.balance > 0
     /\ call.entry_price > 0
     /\ call.stop_loss_price # call.entry_price)
        => /\ ret.trade_risk.returned = "TradeRisk"
           /\ QLe(MIN_RISK_PER_TRADE_USD, ret.trade_risk.risk_amount)
           /\ QLe(ret.trade_risk.risk_amount, MAX_RISK_PER_TRADE_USD)

\* C19: every call returns a TradeRisk, and a call with a zero stop-loss
\* distance returns the fallback one: risk_amount 2% of the balance,
\* risk_percentage 2.
FallbackOnError ==
    ret.called
        => /\ ret.trade_risk.returned = "TradeRisk"
           /\ call.stop_loss_price = call.entry_price
                => /\ ret.trade_risk.risk_amount =
                          QMul(Q(call.balance), <<1, 50>>)
                   /\ ret.trade_risk.risk_percentage = Q(2)

\* C20: for a positive stop-loss percentage the Kelly fraction lies within
\* [0, KELLY_FRACTION], and the Kelly size is balance x fraction / (stop-loss
\* percentage / 100).
KellyClamp ==
    (ret.called /\ QLt(Q(0), StopLossPercentage(call)))
        => /\ QLe(Q(0), ret.kelly_fraction)
           /\ QLe(ret.kelly_fraction, KELLY_FRACTION)
           /\ ret.kelly_size =
                  QDiv(QMul(Q(call.balance), ret.kelly_fraction),
                       QDiv(StopLossPercentage(call), Q(100)))
KellyClampWitness ==
    /\ ret.called
    /\ call.balance > 0
    /\ QLt(Q(0), StopLossPercentage(call))
    /\ call.confidence = Q(1)
    /\ ret.kelly_fraction = KELLY_FRACTION
    /\ QLt(Q(0), ret.kelly_size)

\* C21: for a positive balance, a positive entry price and a stop different
\* from the entry price, above or below it, calculate_position_size returns a
\* TradeRisk whose position_size is not negative, whatever the configured
\* method, the volatility and the market condition.
PositionSizeNotNegative ==
    (/\ ret.called
     /\ call.balance > 0
     /\ call.entry_price > 0
     /\ call.stop_loss_price # call.entry_price)
        => /\ ret.trade_risk.returned = "TradeRisk"
           /\ QLe(Q(0), ret.trade_risk.position_size)
PositionSizeNotNegativeWitness ==
    /\ ret.called
    /\ call.enabled
    /\ call.balance > 0
    /\ call.entry_price > 0
    /\ call.stop_loss_price > call.entry_price
    /\ call.market_condition = "bear"
    /\ call.volatility = 60
    /\ QLt(Q(0), ret.trade_risk.position_size)

\* C22: the size of every BUY order submitted to the venue is at most
\* MAX_POSITION_SIZE, whatever size the sizing and its adjustments gave.
BuySizeCapped ==
    (ret.called /\ ret.order.submitted)
        => QLe(ret.order.size, Q(MAX_POSITION_SIZE))
BuySizeCappedWitness ==
    /\ ret.called
    /\ ret.order.submitted
    /\ ret.order.size = Q(MAX_POSITION_SIZE)
    /\ call.enabled
    /\ call.market_condition = "bull"
    /\ call.volatility = 5

\* The sum the risk report is specified to carry: each position's
\* risk_amount, 2% of the balance where it is unknown.
RECURSIVE SumOfRisks(_, _)
SumOfRisks(risks, balance) ==
    IF risks = <<>> THEN Q(0)
    ELSE QAdd(IF Head(risks) # None THEN Q(Head(risks))
              ELSE QMul(Q(balance), <<1, 50>>),
              SumOfRisks(Tail(risks), balance))

\* C23: for a balance other than 0 the report of check_portfolio_risk carries
\* risk_percentage = total risk / balance x 100 and the one risk_level of the
\* step function: LOW up to 5, MEDIUM up to 10, HIGH up to 15, EXTREME above.
RiskLevelIsStepFunction ==
    (ret.called /\ call.balance # 0)
        => LET pct == QMul(QDiv(SumOfRisks(call.positions, call.balance),
                                Q(call.balance)), Q(100))
           IN /\ ~ret.report.error
              /\ ret.report.risk_percentage = pct
              /\ ret.report.risk_level \in {"LOW", "MEDIUM", "HIGH", "EXTREME"}
              /\ ret.report.risk_level = "LOW" <=> QLe(pct, Q(5))
              /\ ret.report.risk_level = "MEDIUM"
                    <=> (QLt(Q(5), pct) /\ QLe(pct, Q(10)))
              /\ ret.report.risk_level = "HIGH"
                    <=> (QLt(Q(10), pct) /\ QLe(pct, Q(15)))
              /\ ret.report.risk_level = "EXTREME" <=> QLt(Q(15), pct)
RiskLevelIsStepFunctionWitness ==
    /\ ret.called
    /\ Len(call.positions) = 2
    /\ call.positions[1] = None
    /\ ret.report.risk_percentage = Q(5)
    /\ ret.report.risk_level = "LOW"

\* The largest of the first i balances.
RunningPeak(balance_history, i) ==
    CHOOSE p \in {balance_history[j] : j \in 1..i} :
        \A j \in 1..i : balance_history[j] <= p

\* The largest decline from a running peak to a later balance.
TrueMaxDrawdown(balance_history) ==
    LET declines == {RunningPeak(balance_history, i) - balance_history[i] :
                        i \in 1..Len(balance_history)}
    IN CHOOSE d \in declines : \A e \in declines : e <= d

\* C24: for a history of two balances or more calculate_drawdown reports the
\* largest decline from a running peak as max_drawdown and the largest
\* balance as peak_balance; for a shorter history it reports 0 and 0.
DrawdownIsTrueMaximum ==
    ret.called
        => IF Len(call.balance_history) >= 2
           THEN /\ "peak_balance" \in DOMAIN ret.report
                /\ ret.report.peak_balance =
                       RunningPeak(call.balance_history,
                                   Len(call.balance_history))
                /\ ret.report.max_drawdown =
                       TrueMaxDrawdown(call.balance_history)
           ELSE /\ ret.report.max_drawdown = 0
                /\ ret.report.max_drawdown_percentage = Q(0)

\* C25: after n calls of update_trade_history the ledger holds the most
\* recent min(n, 1000) records in the order of insertion, so never more
\* than 1000.
LedgerBounded ==
    LET n == ret.inserted
        kept == Min(n, LEDGER_CAP)
    IN /\ Len(mm_trade_history) = kept
       /\ Len(mm_trade_history) <= LEDGER_CAP
       /\ \A i \in 1..kept : mm_trade_history[i].timestamp = n - kept + i
LedgerBoundedWitness ==
    /\ ret.inserted = LEDGER_CAP + 1
    /\ Len(mm_trade_history) = LEDGER_CAP
    /\ mm_trade_history[1].timestamp = 2
    /\ mm_trade_history[LEDGER_CAP].timestamp = LEDGER_CAP + 1

\* The last successful refresh of the pair is older than one hour, or there
\* was none.
Stale(pair) ==
    \/ ret.last_update_time[pair] = None
    \/ ret.last_update_time[pair] > FRESHNESS_LIMIT

\* C26: in every iteration _generate_signals returns no signal for a pair
\* whose market data is stale, and _execute_trading_signals hands no such
\* pair to an order method.
StaleSymbolsGetNoSignal ==
    [][/\ pc[1] = "generate"
          => \A pair \in Pairs : Stale(pair) => ret'.signals[pair] = NoSignal
       /\ pc[1] = "execute"
          => \A pair \in Pairs : Stale(pair) => pair \notin ret'.ordered]_vars
StaleSymbolsGetNoSignalWitness ==
    /\ pc[1] = "sleep"
    /\ remaining[1] = COOLDOWN_PERIOD
    /\ \E stale \in market_data_cache, fresh \in Pairs :
         /\ ret.last_update_time[stale] > FRESHNESS_LIMIT
         /\ ret.signals[stale] = NoSignal
         /\ ret.last_update_time[fresh] = 0
         /\ fresh \in ret.ordered

\* C27: a SELL signal for a pair with no tracked position submits no order
\* and leaves positions, trade history, ledger, daily_trades, the PnL
\* counters and last_trade_time as they were.
SellWithoutPositionIsNoOp ==
    [][(call'.side = "SELL" /\ active_positions[call'.pair] <= 0)
          => UNCHANGED <<placed, filled, venue_positions, active_positions,
                         trade_history, mm_trade_history, daily_trades,
                         daily_pnl, weekly_pnl, last_trade_time>>]_vars
SellWithoutPositionIsNoOpWitness ==
    /\ call.side = "SELL"
    /\ active_positions[call.pair] = Absent
    /\ ~is_in_cooldown(Bot)
    /\ \E other \in Pairs : active_positions[other] > 0
    /\ placed < MaxOrders

\* C29: when the venue accepts the SELL order of a signal, the tracked size
\* of the pair is 0 afterwards.
SuccessfulSellCloses ==
    [][(call'.side = "SELL" /\ filled' = filled + 1)
          => active_positions'[call'.pair] = 0]_vars

\* C28: a balance query that fails, gives nothing or gives a value that is
\* not positive leaves current_balance as it was, and current_balance is
\* positive in every state.
BalanceNeverLost ==
    /\ current_balance > 0
    /\ (call.user_state.kind # "usdc" \/ call.user_state.free <= 0)
          => current_balance = ret.before
BalanceNeverLostWitness ==
    /\ call.user_state.kind = "usdc"
    /\ call.user_state.free <= 0
    /\ ret.before # INITIAL_BALANCE
    /\ current_balance = ret.before

\* C30: daily_trades never exceeds MAX_DAILY_TRADES.
DailyTradesWithinLimit == daily_trades <= MAX_DAILY_TRADES
====
